---- MODULE Spec2Model ----
(***************************************************************************)
(* Arrow consensus plugin of GenomicConsensus                              *)
(* (src/GenomicConsensus/arrow/arrow.py): the window worker               *)
(* ArrowWorker.onChunk with consensusAndVariantsForWindow, and the plugin  *)
(* entry point configure.                                                  *)
(*                                                                         *)
(* Coordinates are 0-based and half open as in the Python code; TLA+       *)
(* sequences are 1-based, so the Python element s[i] is s[i + 1] here.     *)
(***************************************************************************)
EXTENDS Integers, Sequences, FiniteSets, TLC

\* ------------------------------------------------------------------ bounds
\* Length of the single reference contig.
ContigLen == 12
\* Largest number of reads in the alignment file.
MaxReads == 2
\* Longest run of substituted bases the consensus engine produces.
MaxRunLen == 2

\* ------------------------------------------------------- program constants
\* minLength passed to kSpannedIntervals.
MinLength == 10
\* depthLimit of the read selection that feeds the interval partitioner.
PartitionDepthLimit == 20000

\* ------------------------------------------------------------ input domains
RefId == "chr1"
WindowStarts == {0, 1}
WindowEnds == {ContigLen - 1, ContigLen}
Windows == {<<RefId, s, e>> : s \in WindowStarts, e \in WindowEnds}
Overlaps == {0, 1}
MinPoaCoverages == {1, 2}
DepthLimits == {1, 2}
Policies == {"nocall", "reference", "lowercasereference"}
Half == ContigLen \div 2
\* the reads an alignment file is made of: one spanning the contig, one
\* spanning all but its first and its last base, one failing the filters
ReadTypes ==
    {[tStart |-> 0, tEnd |-> ContigLen, pass |-> TRUE],
     [tStart |-> 1, tEnd |-> ContigLen - 1, pass |-> TRUE],
     [tStart |-> 0, tEnd |-> ContigLen, pass |-> FALSE]}
\* two reads that abut in the middle of the contig: every base is covered
\* once and no read spans the contig
AbuttingReads ==
    <<[tStart |-> 0, tEnd |-> Half, pass |-> TRUE],
      [tStart |-> Half, tEnd |-> ContigLen, pass |-> TRUE]>>

VARIABLES
    workChunk,     \* the WorkChunk given to onChunk: [window, hasCoverage]
    options,       \* the run-wide options read by the worker
    arrowConfig,   \* self.arrowConfig: the ArrowConfig built by configure
    alnFile,       \* self._inAlnFile: the reads of the alignment file
    pc,            \* position of onChunk
    eWindow,       \* onChunk: eWindow
    allIntervals,  \* consensusAndVariantsForWindow: allIntervals
    idx,           \* consensusAndVariantsForWindow: position of the for loop
    subConsensi,   \* consensusAndVariantsForWindow: subConsensi
    variants,      \* consensusAndVariantsForWindow: variants
    css_,          \* onChunk: css_ (the joined consensus of the enlarged window)
    ga,            \* onChunk: ga (the alignment of reference to consensus)
    cssStart,      \* onChunk: cssStart
    cssEnd,        \* onChunk: cssEnd
    result,        \* what onChunk returned
    calls,         \* how often each collaborator was invoked
    log            \* per interval: the reads selected and what the loop body did

VARIABLES
    cfgOptions,    \* configure: options
    cfgAlnFile,    \* configure: alnFile
    supported,     \* what cc.SupportedChemistries() returns
    cfgPc,         \* position of configure
    used,          \* configure: used
    rgIdx,         \* configure: position of the loop over the read groups
    config         \* what configure returned

cfgVars == <<cfgOptions, cfgAlnFile, supported, cfgPc, used, rgIdx, config>>

workerVars == <<workChunk, options, arrowConfig, alnFile, pc, eWindow, allIntervals,
                idx, subConsensi, variants, css_, ga, cssStart, cssEnd, result,
                calls, log>>

None == "None"

\* --------------------------------------------------------- Python helpers
Min(a, b) == IF a < b THEN a ELSE b
Max(a, b) == IF a > b THEN a ELSE b

\* s[a:b] for 0 <= a, 0 <= b
PySlice(s, a, b) ==
    LET hi == Min(b, Len(s))
    IN  IF a >= hi THEN <<>> ELSE SubSeq(s, a + 1, hi)

RECURSIVE Concat(_)
Concat(ss) == IF ss = <<>> THEN <<>> ELSE Head(ss) \o Concat(Tail(ss))

RECURSIVE SumLen(_)
SumLen(ss) == IF ss = <<>> THEN 0 ELSE Len(Head(ss)) + SumLen(Tail(ss))

\* ------------------------------------------------------------- reference
Bases == <<"A", "C", "G", "T">>
\* reference.byName[refId].sequence
refContig == [i \in 1..ContigLen |-> Bases[((i - 1) % 4) + 1]]

\* reference.sequenceInWindow
sequenceInWindow(win) == PySlice(refContig, win[2], win[3])

\* reference.enlargedReferenceWindow: widen by the overlap, clipped to the contig
enlargedReferenceWindow(win, overlap) ==
    <<win[1], Max(0, win[2] - overlap), Min(ContigLen, win[3] + overlap)>>

\* windows.subWindow
subWindow(refWindow, interval) == <<refWindow[1], interval[1], interval[2]>>

\* ------------------------------------------------- alignment file and reads
\* alnFile is a sequence of reads [tStart, tEnd, pass]; pass says whether the
\* read meets the quality thresholds of U.filterAlns. Reads are named by
\* their index in the file.
ReadRank(r) == (r.tStart * (ContigLen + 1) + r.tEnd) * 2 + (IF r.pass THEN 1 ELSE 0)
AlnFiles ==
    {f \in UNION {[1..n -> ReadTypes] : n \in 0..MaxReads} :
        \A i \in 1..(Len(f) - 1) : ReadRank(f[i]) <= ReadRank(f[i + 1])}
    \cup {AbuttingReads}

\* the reads of the file that overlap the window
ReadsInRange(win) ==
    {i \in 1..Len(alnFile) : alnFile[i].tStart < win[3] /\ alnFile[i].tEnd > win[2]}

LengthInWindow(r, win) == Min(r.tEnd, win[3]) - Max(r.tStart, win[2])

\* U.readsInWindow with strategy "long-and-strand-balanced": the reads that
\* overlap the window, longest in the window first, capped at depthLimit.
\* Which of several equally long reads is kept is not determined.
readsInWindow(win, depthLimit) ==
    LET hits == ReadsInRange(win)
        n == Min(depthLimit, Cardinality(hits))
    IN  {S \in SUBSET hits :
            /\ Cardinality(S) = n
            /\ \A i \in S, j \in hits \ S :
                  LengthInWindow(alnFile[i], win) >= LengthInWindow(alnFile[j], win)}

\* aln.clippedTo(start, end)
clippedTo(r, s, e) == [r EXCEPT !.tStart = Max(r.tStart, s), !.tEnd = Min(r.tEnd, e)]

\* aln.spansReferenceRange(start, end)
spansReferenceRange(r, s, e) == r.tStart <= s /\ r.tEnd >= e

\* U.filterAlns: drops the reads below the quality thresholds and the reads
\* that are empty after clipping. Maps read index to clipped read.
filterAlns(clipped) ==
    {i \in DOMAIN clipped : clipped[i].pass /\ clipped[i].tEnd > clipped[i].tStart}

\* ------------------------------------------------------ interval partitioner
\* lexicographic order of Python tuples (start, end)
TupleLess(a, b) == a[1] < b[1] \/ (a[1] = b[1] /\ a[2] < b[2])

RECURSIVE Insert(_, _)
Insert(x, s) ==
    IF s = <<>> THEN <<x>>
    ELSE IF TupleLess(x, Head(s)) THEN <<x>> \o s
    ELSE <<Head(s)>> \o Insert(x, Tail(s))

\* sorted(list)
RECURSIVE sorted(_)
sorted(s) == IF s = <<>> THEN <<>> ELSE Insert(Head(s), sorted(Tail(s)))

RECURSIVE SetToSeq(_)
SetToSeq(S) ==
    IF S = {} THEN <<>>
    ELSE LET x == CHOOSE y \in S : \A z \in S : z = y \/ TupleLess(y, z)
         IN  <<x>> \o SetToSeq(S \ {x})

\* number of the given reads that cover reference position p
CoverageAt(hits, p) ==
    Cardinality({i \in hits : alnFile[i].tStart <= p /\ p < alnFile[i].tEnd})

\* windows.kSpannedIntervals: the maximal runs of the window in which the
\* coverage is at least k, those shorter than minLength discarded, sorted.
kSpannedIntervals(refWindow, k, hits, minLength) ==
    LET ws == refWindow[2]
        we == refWindow[3]
        ok(p) == CoverageAt(hits, p) >= k
    IN  SetToSeq({iv \in (ws..we) \X (ws..we) :
                    /\ iv[1] < iv[2]
                    /\ \A p \in iv[1]..(iv[2] - 1) : ok(p)
                    /\ (iv[1] = ws \/ ~ok(iv[1] - 1))
                    /\ (iv[2] = we \/ ~ok(iv[2]))
                    /\ iv[2] - iv[1] >= minLength})

\* windows.holes: the gaps the sorted intervals leave in the window
RECURSIVE HolesFrom(_, _, _)
HolesFrom(lastE, intervals, winEnd) ==
    IF intervals = <<>>
    THEN IF lastE < winEnd THEN <<(<<lastE, winEnd>>)>> ELSE <<>>
    ELSE LET iv == Head(intervals)
         IN  (IF iv[1] > lastE THEN <<(<<lastE, iv[1]>>)>> ELSE <<>>)
                \o HolesFrom(iv[2], Tail(intervals), winEnd)

holes(refWindow, intervals) == HolesFrom(refWindow[2], sorted(intervals), refWindow[3])

\* ------------------------------------------------------- consensus objects
\* Consensus(refWindow, sequence, confidence)
Consensus(win, seq, conf) == [refWindow |-> win, sequence |-> seq, confidence |-> conf]

Lower(b) ==
    CASE b = "A" -> "a" [] b = "C" -> "c" [] b = "G" -> "g" [] b = "T" -> "t" [] OTHER -> b

\* ArrowConsensus.noCallConsensus: a placeholder as long as the reference
\* slice, chosen by the no-evidence policy, with confidence zero throughout.
noCallConsensus(policy, win, refSequence) ==
    LET n == Len(refSequence)
        seq == CASE policy = "nocall" -> [i \in 1..n |-> "N"]
                 [] policy = "reference" -> refSequence
                 [] OTHER -> [i \in 1..n |-> Lower(refSequence[i])]
    IN  Consensus(win, seq, [i \in 1..n |-> 0])

\* consensus.join: concatenation in the order given; the window runs from the
\* smallest start to the largest end.
join(consensi) ==
    LET starts == {consensi[i].refWindow[2] : i \in DOMAIN consensi}
        ends == {consensi[i].refWindow[3] : i \in DOMAIN consensi}
        lo == CHOOSE x \in starts : \A y \in starts : x <= y
        hi == CHOOSE x \in ends : \A y \in ends : x >= y
    IN  Consensus(<<consensi[1].refWindow[1], lo, hi>>,
                  Concat([i \in DOMAIN consensi |-> consensi[i].sequence]),
                  Concat([i \in DOMAIN consensi |-> consensi[i].confidence]))

\* ------------------------------------------- consensus engine and variants
\* The consensus engine is opaque: for a reference slice of length n it
\* returns some consensus. The consensi considered differ from the slice by
\* one run of edits: nothing, one inserted base, one deleted base, or a run
\* of up to MaxRunLen substituted bases. The edit is written as a transcript
\* (M match, R mismatch, I insertion, D deletion).
AllMatch(n) == [i \in 1..n |-> "M"]

\* where the run of edits starts: at either end of the slice or next to it
EditSites(n) == {j \in {0, 1, 2, n - 1, n} : 0 <= j /\ j <= n}

EngineTranscripts(n) ==
    {AllMatch(n)}
    \cup {SubSeq(AllMatch(n), 1, j) \o <<"I">> \o SubSeq(AllMatch(n), j + 1, n) :
            j \in EditSites(n)}
    \cup {[AllMatch(n) EXCEPT ![j] = "D"] : j \in EditSites(n) \ {0}}
    \cup {[i \in 1..n |-> IF j <= i /\ i < j + l THEN "R" ELSE "M"] :
            <<j, l>> \in {jl \in (EditSites(n) \ {0}) \X (1..MaxRunLen) :
                            jl[1] + jl[2] - 1 <= n}}

\* a base other than b; in diploid mode the IUPAC code of the two alleles
Substitute(b, diploid) ==
    IF diploid
    THEN CASE b = "A" -> "M" [] b = "C" -> "S" [] b = "G" -> "K" [] OTHER -> "W"
    ELSE CASE b = "A" -> "C" [] b = "C" -> "G" [] b = "G" -> "T" [] OTHER -> "A"

RECURSIVE ApplyTranscript(_, _, _)
ApplyTranscript(tr, ref, diploid) ==
    IF tr = <<>> THEN <<>>
    ELSE CASE Head(tr) = "M" -> <<Head(ref)>> \o ApplyTranscript(Tail(tr), Tail(ref), diploid)
           [] Head(tr) = "R" -> <<Substitute(Head(ref), diploid)>>
                                    \o ApplyTranscript(Tail(tr), Tail(ref), diploid)
           [] Head(tr) = "I" -> <<"G">> \o ApplyTranscript(Tail(tr), ref, diploid)
           [] OTHER -> ApplyTranscript(Tail(tr), Tail(ref), diploid)

\* U.consensusForAlignments: a real consensus with a positive confidence per base
consensusForAlignments(subWin, intRefSeq, tr, diploid) ==
    LET seq == ApplyTranscript(tr, intRefSeq, diploid)
    IN  Consensus(subWin, seq, [i \in 1..Len(seq) |-> i])

\* the representative base of an IUPAC ambiguity code
CleanBase(b) ==
    CASE b = "M" -> "C" [] b = "S" -> "G" [] b = "K" -> "T" [] b = "W" -> "A" [] OTHER -> b

\* the cleaned consensus: every ambiguity code replaced by one base
cleanedConsensus(seq) == [i \in 1..Len(seq) |-> CleanBase(seq[i])]

RECURSIVE RunLength(_, _)
RunLength(tr, c) ==
    IF tr = <<>> \/ Head(tr) # c THEN 0 ELSE 1 + RunLength(Tail(tr), c)

\* the variant caller's walk of the alignment of reference to consensus: one
\* variant per run that is not a match, at the reference position of the run
RECURSIVE VariantsFromTranscript(_, _)
VariantsFromTranscript(tr, refPos) ==
    IF tr = <<>> THEN <<>>
    ELSE LET c == Head(tr)
             n == RunLength(tr, c)
             refLen == IF c = "I" THEN 0 ELSE n
             rest == SubSeq(tr, n + 1, Len(tr))
         IN  (IF c = "M" THEN <<>>
              ELSE <<[refStart |-> refPos, refEnd |-> refPos + refLen, kind |-> c]>>)
                \o VariantsFromTranscript(rest, refPos + refLen)

\* U.variantsFromConsensus: (variants, newPureCss)
variantsFromConsensus(subWin, tr, cssSequence) ==
    <<VariantsFromTranscript(tr, subWin[2]), cleanedConsensus(cssSequence)>>

\* ------------------------------------------------------------------ aligner
\* cc.Align(target, query): an alignment transcript of the query to the
\* target. The aligner is opaque; every best transcript is a possible answer:
\* one with the fewest possible gaps and, among those, the fewest mismatches.
\* Where several places of a gap are equally good, each is possible.
RECURSIVE AlignFrom(_, _, _, _, _)
AlignFrom(t, q, i, j, g) ==
    LET remT == Len(t) - i + 1
        remQ == Len(q) - j + 1
        d == IF remT > remQ THEN remT - remQ ELSE remQ - remT
    IN  IF d > g THEN {}
        ELSE IF remT = 0 /\ remQ = 0 THEN {<<>>}
        ELSE (IF remT > 0 /\ remQ > 0
              THEN {<<IF t[i] = q[j] THEN "M" ELSE "R">> \o x : x \in AlignFrom(t, q, i + 1, j + 1, g)}
              ELSE {})
             \cup (IF remQ > 0 /\ g > 0
                   THEN {<<"I">> \o x : x \in AlignFrom(t, q, i, j + 1, g - 1)}
                   ELSE {})
             \cup (IF remT > 0 /\ g > 0
                   THEN {<<"D">> \o x : x \in AlignFrom(t, q, i + 1, j, g - 1)}
                   ELSE {})

Mismatches(tr) == Cardinality({i \in DOMAIN tr : tr[i] = "R"})

Align(target, query) ==
    LET m == Len(target)
        n == Len(query)
        all == AlignFrom(target, query, 1, 1, IF m > n THEN m - n ELSE n - m)
    IN  {a \in all : \A b \in all : Mismatches(a) <= Mismatches(b)}

\* cc.TargetToQueryPositions: for each target position, and for the end of
\* the target, the query position it is aligned to; the position of a
\* deleted target base is that of the next query base.
RECURSIVE TargetToQueryFrom(_, _)
TargetToQueryFrom(tr, queryPos) ==
    IF tr = <<>> THEN <<queryPos>>
    ELSE CASE Head(tr) = "I" -> TargetToQueryFrom(Tail(tr), queryPos + 1)
           [] Head(tr) = "D" -> <<queryPos>> \o TargetToQueryFrom(Tail(tr), queryPos)
           [] OTHER -> <<queryPos>> \o TargetToQueryFrom(Tail(tr), queryPos + 1)

TargetToQueryPositions(tr) == TargetToQueryFrom(tr, 0)

\* ------------------------------------------------------------------ worker
refStart == workChunk.window[2]
refEnd == workChunk.window[3]

NoCalls == [readsInWindow |-> 0, consensusForAlignments |-> 0,
            variantsFromConsensus |-> 0, noCallConsensus |-> 0, Align |-> 0,
            returned |-> 0]

Called(what, n) == [calls EXCEPT ![what] = @ + n]

\* the cutout test inverted: "if workChunk.hasCoverage"
QuickCutoutInverted == workChunk.hasCoverage

\* onChunk: "if not workChunk.hasCoverage"
QuickCutout == ~workChunk.hasCoverage

\* onChunk, the quick cutout for the no-coverage case
NoCoverage ==
    /\ pc = "Start"
    /\ QuickCutout
    /\ LET referenceWindow == workChunk.window
           refSeqInWindow == sequenceInWindow(referenceWindow)
           noCallCss == noCallConsensus(arrowConfig.noEvidenceConsensus,
                                        referenceWindow, refSeqInWindow)
       IN  result' = <<referenceWindow, <<noCallCss, <<>>>>>>
    /\ calls' = [calls EXCEPT !["noCallConsensus"] = @ + 1, !["returned"] = @ + 1]
    /\ pc' = "Done"
    /\ UNCHANGED cfgVars
    /\ UNCHANGED <<workChunk, options, arrowConfig, alnFile, eWindow, allIntervals,
                   idx, subConsensi, variants, css_, ga, cssStart, cssEnd, log>>

\* onChunk, the general case: the enlarged window
HasCoverage ==
    /\ pc = "Start"
    /\ ~QuickCutout
    /\ eWindow' = enlargedReferenceWindow(workChunk.window, options.referenceChunkOverlap)
    /\ pc' = "HasCoverage"
    /\ UNCHANGED cfgVars
    /\ UNCHANGED <<workChunk, options, arrowConfig, alnFile, allIntervals, idx,
                   subConsensi, variants, css_, ga, cssStart, cssEnd, result, calls, log>>

\* allIntervals without the sort: the gaps follow the covered intervals
AllIntervalsUnsorted(refWindow) ==
    IF options.fancyChunking
    THEN LET alnHits == CHOOSE S \in readsInWindow(refWindow, PartitionDepthLimit) : TRUE
             intervals == kSpannedIntervals(refWindow, arrowConfig.minPoaCoverage,
                                            alnHits, MinLength)
             coverageGaps == holes(refWindow, intervals)
         IN  intervals \o coverageGaps
    ELSE <<(<<refWindow[2], refWindow[3]>>)>>

\* consensusAndVariantsForWindow: allIntervals
AllIntervals(refWindow) ==
    IF options.fancyChunking
    THEN LET alnHits == CHOOSE S \in readsInWindow(refWindow, PartitionDepthLimit) : TRUE
             intervals == kSpannedIntervals(refWindow, arrowConfig.minPoaCoverage,
                                            alnHits, MinLength)
             coverageGaps == holes(refWindow, intervals)
         IN  sorted(intervals \o coverageGaps)
    ELSE <<(<<refWindow[2], refWindow[3]>>)>>

\* consensusAndVariantsForWindow, step 1: the intervals of the enlarged window
Partition ==
    /\ pc = "HasCoverage"
    /\ allIntervals' = AllIntervals(eWindow)
    /\ idx' = 1
    /\ subConsensi' = <<>>
    /\ variants' = <<>>
    /\ calls' = Called("readsInWindow", IF options.fancyChunking THEN 1 ELSE 0)
    /\ pc' = "Partitioned"
    /\ UNCHANGED cfgVars
    /\ UNCHANGED <<workChunk, options, arrowConfig, alnFile, eWindow, css_, ga,
                   cssStart, cssEnd, result, log>>

\* the count without the spanning test: every clipped, filtered read counts
FilteredCount(clippedAlns_, clippedAlns, intStart, intEnd) == Cardinality(clippedAlns)

\* consensusAndVariantsForWindow: the number of clipped, filtered reads that
\* span the interval
SpanningCount(clippedAlns_, clippedAlns, intStart, intEnd) ==
    Cardinality({a \in clippedAlns : spansReferenceRange(clippedAlns_[a], intStart, intEnd)})

\* the coverage test with > for >=
MoreThanMinCoverage(nSpanning) == nSpanning > arrowConfig.minPoaCoverage

\* consensusAndVariantsForWindow: the coverage test of an interval
EnoughCoverage(nSpanning) == nSpanning >= arrowConfig.minPoaCoverage

\* onChunk: the depth limit handed to consensusAndVariantsForWindow
IntervalDepthLimit == options.coverage

\* consensusAndVariantsForWindow, steps 2 and 3: the body of the loop over
\* the intervals
PerIntervalConsensus ==
    /\ pc = "Partitioned"
    /\ idx <= Len(allIntervals)
    /\ LET interval == allIntervals[idx]
           intStart == interval[1]
           intEnd == interval[2]
           intRefSeq == PySlice(refContig, intStart, intEnd)
           subWin == subWindow(eWindow, interval)
       IN  \E alns \in readsInWindow(subWin, IntervalDepthLimit) :
             LET clippedAlns_ == [i \in alns |-> clippedTo(alnFile[i], intStart, intEnd)]
                 clippedAlns == filterAlns(clippedAlns_)
                 nSpanning == SpanningCount(clippedAlns_, clippedAlns, intStart, intEnd)
             IN  IF EnoughCoverage(nSpanning)
                 THEN \E tr \in EngineTranscripts(Len(intRefSeq)) :
                        LET css == consensusForAlignments(subWin, intRefSeq, tr,
                                                          arrowConfig.polishDiploid)
                            vc == variantsFromConsensus(subWin, tr, css.sequence)
                            variants_ == vc[1]
                            newPureCss == vc[2]
                            css2 == IF arrowConfig.polishDiploid
                                    THEN [css EXCEPT !.sequence = newPureCss]
                                    ELSE css
                        IN  /\ variants' = variants \o variants_
                            /\ subConsensi' = Append(subConsensi, css2)
                            /\ calls' = [calls EXCEPT
                                            !["readsInWindow"] = @ + 1,
                                            !["consensusForAlignments"] = @ + 1,
                                            !["variantsFromConsensus"] = @ + 1]
                            /\ log' = Append(log, [interval |-> interval,
                                                   alns |-> alns,
                                                   real |-> TRUE,
                                                   nVariants |-> Len(variants_)])
                 ELSE LET css == noCallConsensus(arrowConfig.noEvidenceConsensus,
                                                 subWin, intRefSeq)
                      IN  /\ variants' = variants
                          /\ subConsensi' = Append(subConsensi, css)
                          /\ calls' = [calls EXCEPT
                                          !["readsInWindow"] = @ + 1,
                                          !["noCallConsensus"] = @ + 1]
                          /\ log' = Append(log, [interval |-> interval,
                                                 alns |-> alns,
                                                 real |-> FALSE,
                                                 nVariants |-> 0])
    /\ idx' = idx + 1
    /\ UNCHANGED cfgVars
    /\ UNCHANGED <<workChunk, options, arrowConfig, alnFile, pc, eWindow,
                   allIntervals, css_, ga, cssStart, cssEnd, result>>

\* consensusAndVariantsForWindow, steps 4 and 5: join and return
Stitched ==
    /\ pc = "Partitioned"
    /\ idx > Len(allIntervals)
    /\ IF subConsensi = <<>>
       THEN /\ pc' = "Aborted"
            /\ css_' = css_
       ELSE /\ pc' = "Stitched"
            /\ css_' = join(subConsensi)
    /\ UNCHANGED cfgVars
    /\ UNCHANGED <<workChunk, options, arrowConfig, alnFile, eWindow, allIntervals,
                   idx, subConsensi, variants, ga, cssStart, cssEnd, result, calls, log>>

\* the start index without the offset of the enlarged window
AbsoluteStartIndex == refStart

\* onChunk: the index into targetPositions for the start of the window
CssStartIndex == refStart - eWindow[2]
\* onChunk: the index into targetPositions for the end of the window
CssEndIndex == refEnd - eWindow[2]

\* the test of the variants without its lower bound
VariantBeforeEnd(v) == v.refStart < refEnd

\* onChunk: the test of the variants' list comprehension
VariantInWindow(v) == refStart <= v.refStart /\ v.refStart < refEnd

RECURSIVE SelectVariants(_)
SelectVariants(vs) ==
    IF vs = <<>> THEN <<>>
    ELSE (IF VariantInWindow(Head(vs)) THEN <<Head(vs)>> ELSE <<>>)
            \o SelectVariants(Tail(vs))

\* the confidence sliced at the reference offsets, not the consensus offsets
ConfidenceAtReferenceOffsets(confidence, start, end) ==
    PySlice(confidence, CssStartIndex, CssEndIndex)

\* onChunk: cssQv
ConfidenceSlice(confidence, start, end) == PySlice(confidence, start, end)

\* the result tagged with the enlarged window
EnlargedResultWindow == eWindow

\* onChunk: the window of the consensus object and of the result
ResultWindow == workChunk.window

\* onChunk: restrict the consensus and the variants to the reference window
Remapped ==
    /\ pc = "Stitched"
    /\ LET refSequenceInEnlargedWindow == PySlice(refContig, eWindow[2], eWindow[3])
       IN  \E a \in Align(refSequenceInEnlargedWindow, css_.sequence) :
             LET targetPositions == TargetToQueryPositions(a)
             IN  /\ ga' = a
                 /\ IF CssStartIndex + 1 \in DOMAIN targetPositions
                       /\ CssEndIndex + 1 \in DOMAIN targetPositions
                    THEN LET start == targetPositions[CssStartIndex + 1]
                             end == targetPositions[CssEndIndex + 1]
                             cssSequence == PySlice(css_.sequence, start, end)
                             cssQv == ConfidenceSlice(css_.confidence, start, end)
                             consensusObj == Consensus(ResultWindow, cssSequence, cssQv)
                         IN  /\ cssStart' = start
                             /\ cssEnd' = end
                             /\ result' = <<ResultWindow,
                                            <<consensusObj, SelectVariants(variants)>>>>
                             /\ calls' = [calls EXCEPT !["Align"] = @ + 1,
                                                       !["returned"] = @ + 1]
                             /\ pc' = "Done"
                    ELSE /\ UNCHANGED <<cssStart, cssEnd, result>>
                         /\ calls' = Called("Align", 1)
                         /\ pc' = "Aborted"
    /\ UNCHANGED cfgVars
    /\ UNCHANGED <<workChunk, options, arrowConfig, alnFile, eWindow, allIntervals,
                   idx, subConsensi, variants, css_, log>>

\* ---------------------------------------------------------------- configure
Chemistries == {"P6-C4", "S/P1-C1/beta", "S/P2-C2/5.0"}
BaseFeatures == {"Ipd", "PulseWidth"}
ReadGroups == [SequencingChemistry : Chemistries, BaseFeatures : SUBSET BaseFeatures]
\* Largest number of read groups in the alignment file.
MaxReadGroups == 2
ReadGroupTables == UNION {[1..n -> ReadGroups] : n \in 1..MaxReadGroups}
\* the sets of chemistries the library may have models for
SupportedSets == {Chemistries, {"P6-C4", "S/P1-C1/beta"}}

\* cc.LoadModels: whether the model parameters file loads
LoadModels(parametersFile) == parametersFile = "good.json"
\* cc.OverrideModel: whether the model override is accepted
OverrideModel(parametersSpec) == parametersSpec = "S/P2-C2/5.0"

\* alnFile.sequencingChemistry: the chemistries of the read groups
sequencingChemistry(aln) ==
    {aln.readGroupTable[i].SequencingChemistry : i \in DOMAIN aln.readGroupTable}

CfgOptions ==
    [parametersFile : {"", "good.json", "bad.json"},
     parametersSpec : {"auto", "S/P2-C2/5.0", "no-such-model"},
     diploid : BOOLEAN,
     noEvidenceConsensusCall : {"nocall"}]
CfgAlnFiles == [readType : {"standard", "CCS"}, readGroupTable : ReadGroupTables]

\* configure: "if alnFile.readType != 'standard': raise"
CheckReadType ==
    /\ cfgPc = "Start"
    /\ cfgPc' = IF cfgAlnFile.readType # "standard" THEN "Raised" ELSE "LoadParameters"
    /\ UNCHANGED <<cfgOptions, cfgAlnFile, supported, used, rgIdx, config>>
    /\ UNCHANGED workerVars

\* configure: load parameters from file
LoadParameters ==
    /\ cfgPc = "LoadParameters"
    /\ cfgPc' = IF cfgOptions.parametersFile # "" /\ ~LoadModels(cfgOptions.parametersFile)
                THEN "Died"
                ELSE "SelectModels"
    /\ UNCHANGED <<cfgOptions, cfgAlnFile, supported, used, rgIdx, config>>
    /\ UNCHANGED workerVars

\* configure: the model override, or else the test of the chemistries
SelectModels ==
    /\ cfgPc = "SelectModels"
    /\ LET supp == supported
       IN  IF cfgOptions.parametersSpec # "auto"
           THEN IF ~OverrideModel(cfgOptions.parametersSpec)
                THEN cfgPc' = "Died" /\ used' = {}
                ELSE cfgPc' = "CheckReadGroups" /\ used' = {cfgOptions.parametersSpec}
           ELSE LET u == sequencingChemistry(cfgAlnFile)
                    unsupp == u \ supp
                IN  /\ used' = u
                    /\ cfgPc' = IF unsupp # {} THEN "Died" ELSE "CheckReadGroups"
    /\ rgIdx' = 1
    /\ UNCHANGED <<cfgOptions, cfgAlnFile, supported, config>>
    /\ UNCHANGED workerVars

\* the feature test with "and" for "or": only both features missing count
LacksBothFeatures(readGroup) ==
    /\ {readGroup.SequencingChemistry} \ {"P6-C4", "S/P1-C1/beta"} # {}
    /\ ("Ipd" \notin readGroup.BaseFeatures /\ "PulseWidth" \notin readGroup.BaseFeatures)

\* configure: the read group lacks a base feature its model requires
LacksRequiredFeature(readGroup) ==
    /\ {readGroup.SequencingChemistry} \ {"P6-C4", "S/P1-C1/beta"} # {}
    /\ ("Ipd" \notin readGroup.BaseFeatures \/ "PulseWidth" \notin readGroup.BaseFeatures)

\* configure: the body of the loop over alnFile.readGroupTable
CheckReadGroup ==
    /\ cfgPc = "CheckReadGroups"
    /\ rgIdx <= Len(cfgAlnFile.readGroupTable)
    /\ IF LacksRequiredFeature(cfgAlnFile.readGroupTable[rgIdx])
       THEN cfgPc' = "Died" /\ rgIdx' = rgIdx
       ELSE cfgPc' = cfgPc /\ rgIdx' = rgIdx + 1
    /\ UNCHANGED <<cfgOptions, cfgAlnFile, supported, used, config>>
    /\ UNCHANGED workerVars

\* configure: return M.ArrowConfig(...)
ReturnConfig ==
    /\ cfgPc = "CheckReadGroups"
    /\ rgIdx > Len(cfgAlnFile.readGroupTable)
    /\ config' = [noEvidenceConsensus |-> cfgOptions.noEvidenceConsensusCall,
                  polishDiploid |-> cfgOptions.diploid]
    /\ cfgPc' = "Returned"
    /\ UNCHANGED <<cfgOptions, cfgAlnFile, supported, used, rgIdx>>
    /\ UNCHANGED workerVars

\* ------------------------------------------------------------ specifications
WorkChunks == [window : Windows, hasCoverage : BOOLEAN]
Options == [referenceChunkOverlap : Overlaps, fancyChunking : BOOLEAN, coverage : DepthLimits]
ArrowConfigs == [minPoaCoverage : MinPoaCoverages, noEvidenceConsensus : Policies,
                 polishDiploid : BOOLEAN]

\* the worker before a chunk
WorkerIdle ==
    /\ pc = "Start"
    /\ eWindow = None
    /\ allIntervals = <<>>
    /\ idx = 0
    /\ subConsensi = <<>>
    /\ variants = <<>>
    /\ css_ = None
    /\ ga = None
    /\ cssStart = None
    /\ cssEnd = None
    /\ result = <<>>
    /\ calls = NoCalls
    /\ log = <<>>

\* configure before its first statement
ConfigureStart ==
    /\ cfgPc = "Start"
    /\ used = {}
    /\ rgIdx = 0
    /\ config = None

\* a worker is handed a chunk; configure has run
Init ==
    /\ workChunk \in WorkChunks
    /\ options \in Options
    /\ arrowConfig \in ArrowConfigs
    /\ alnFile \in AlnFiles
    /\ WorkerIdle
    /\ cfgOptions = [parametersFile |-> "", parametersSpec |-> "auto",
                     diploid |-> arrowConfig.polishDiploid,
                     noEvidenceConsensusCall |-> arrowConfig.noEvidenceConsensus]
    /\ cfgAlnFile = [readType |-> "standard",
                     readGroupTable |-> <<[SequencingChemistry |-> "P6-C4",
                                           BaseFeatures |-> {}]>>]
    /\ supported = Chemistries
    /\ cfgPc = "Returned"
    /\ used = {"P6-C4"}
    /\ rgIdx = 2
    /\ config = [noEvidenceConsensus |-> arrowConfig.noEvidenceConsensus,
                 polishDiploid |-> arrowConfig.polishDiploid]

Next ==
    \/ NoCoverage
    \/ HasCoverage
    \/ Partition
    \/ PerIntervalConsensus
    \/ Stitched
    \/ Remapped

vars == <<workerVars, cfgVars>>

Spec == Init /\ [][Next]_vars

\* configure is called; no worker runs yet
ConfigureInit ==
    /\ cfgOptions \in CfgOptions
    /\ cfgAlnFile \in CfgAlnFiles
    /\ supported \in SupportedSets
    /\ ConfigureStart
    /\ workChunk = [window |-> <<RefId, 0, ContigLen>>, hasCoverage |-> FALSE]
    /\ options = [referenceChunkOverlap |-> 0, fancyChunking |-> FALSE, coverage |-> 1]
    /\ arrowConfig = [minPoaCoverage |-> 1, noEvidenceConsensus |-> "nocall",
                      polishDiploid |-> FALSE]
    /\ alnFile = <<>>
    /\ WorkerIdle

ConfigureNext ==
    \/ CheckReadType
    \/ LoadParameters
    \/ SelectModels
    \/ CheckReadGroup
    \/ ReturnConfig

ConfigureSpec == ConfigureInit /\ [][ConfigureNext]_vars

\* ------------------------------------------------------------ the claims
Done == pc = "Done"
ResultConsensus == result[2][1]
ResultVariants == result[2][2]
Range(f) == {f[i] : i \in DOMAIN f}
WindowLength(win) == win[3] - win[2]
\* a placeholder of the no-evidence policies for the reference from position start
IsPlaceholder(seq, start) ==
    \/ \A i \in DOMAIN seq : seq[i] = "N"
    \/ \A i \in DOMAIN seq : seq[i] = refContig[start + i]
    \/ \A i \in DOMAIN seq : seq[i] = Lower(refContig[start + i])
\* a no-call consensus for the window: a placeholder as long as the window
\* with confidence zero
IsNoCall(c, win) ==
    /\ c.refWindow = win
    /\ Len(c.sequence) = WindowLength(win)
    /\ Len(c.confidence) = WindowLength(win)
    /\ \A i \in DOMAIN c.confidence : c.confidence[i] = 0
    /\ IsPlaceholder(c.sequence, win[2])

\* C1: a chunk without coverage yields (chunk.window, (no-call consensus
\* spanning exactly chunk.window, no variants)), and neither the consensus
\* engine, the variant caller, the read selector nor the aligner is invoked.
C1_NoCoverageResult ==
    (Done /\ ~workChunk.hasCoverage) =>
        /\ result[1] = workChunk.window
        /\ IsNoCall(ResultConsensus, workChunk.window)
        /\ ResultVariants = <<>>
        /\ calls.consensusForAlignments = 0
        /\ calls.variantsFromConsensus = 0
        /\ calls.readsInWindow = 0
        /\ calls.Align = 0

C1_Witness == Done /\ ~workChunk.hasCoverage /\ calls.noCallConsensus = 1

\* C2 as amended: every variant onChunk returns for a chunk with coverage
\* starts inside the requested window, refStart <= v.refStart < refEnd (its
\* end may lie beyond refEnd).
C2_VariantStartsInWindow ==
    (Done /\ workChunk.hasCoverage) =>
        \A v \in Range(ResultVariants) : refStart <= v.refStart /\ v.refStart < refEnd

\* a variant of the enlarged window that starts outside the requested window
\* was called and is not returned
C2_Witness ==
    /\ Done
    /\ workChunk.hasCoverage
    /\ \E v \in Range(variants) : v.refStart < refStart \/ v.refStart >= refEnd
    /\ ResultVariants = <<>>

\* C2 as stated: the reference extent of every returned variant lies inside
\* the requested window.
C2_VariantExtentInWindow ==
    (Done /\ workChunk.hasCoverage) =>
        \A v \in Range(ResultVariants) : refStart <= v.refStart /\ v.refEnd <= refEnd

\* C3: when the enlarged window is the requested window, the remap step
\* returns the consensus sequence, the confidence and the variants of the
\* enlarged window unchanged.
C3_RemapUnchanged ==
    (Done /\ workChunk.hasCoverage /\ eWindow = workChunk.window) =>
        /\ ResultConsensus.sequence = css_.sequence
        /\ ResultConsensus.confidence = css_.confidence
        /\ ResultVariants = variants

\* the part of the transcript before the element that consumes target
\* position a (0-based); the whole transcript when a is the target's length
TargetConsumed(tr, i) == Cardinality({j \in 1..i : tr[j] # "I"})
PrefixEnd(tr, a) ==
    IF \E i \in DOMAIN tr : tr[i] # "I" /\ TargetConsumed(tr, i) = a + 1
    THEN (CHOOSE i \in DOMAIN tr : tr[i] # "I" /\ TargetConsumed(tr, i) = a + 1) - 1
    ELSE Len(tr)
InsertedBefore(tr, a) == Cardinality({j \in 1..PrefixEnd(tr, a) : tr[j] = "I"})
DeletedBefore(tr, a) == Cardinality({j \in 1..PrefixEnd(tr, a) : tr[j] = "D"})

\* C4: the slice offsets are the naive offsets refStart - eStart and
\* refEnd - eStart, each shifted by +1 for every consensus base inserted and
\* by -1 for every reference base deleted before that reference position in
\* the alignment; and cssStart <= cssEnd.
C4_SliceOffsets ==
    (Done /\ workChunk.hasCoverage) =>
        LET a == workChunk.window[2] - eWindow[2]
            b == workChunk.window[3] - eWindow[2]
        IN  /\ cssStart = a + InsertedBefore(ga, a) - DeletedBefore(ga, a)
            /\ cssEnd = b + InsertedBefore(ga, b) - DeletedBefore(ga, b)
            /\ cssStart <= cssEnd

\* a base inserted in the margin before refStart shifts the start by one
C4_Witness ==
    /\ Done
    /\ workChunk.hasCoverage
    /\ workChunk.window[2] > eWindow[2]
    /\ InsertedBefore(ga, workChunk.window[2] - eWindow[2]) = 1
    /\ cssStart = workChunk.window[2] - eWindow[2] + 1

Partitioning == pc \in {"Partitioned", "Stitched", "Done"} /\ workChunk.hasCoverage

\* sorted by start, no two overlapping, the union exactly the window
Tiles(ivs, win) ==
    /\ Len(ivs) >= 1
    /\ ivs[1][1] = win[2]
    /\ ivs[Len(ivs)][2] = win[3]
    /\ \A i \in DOMAIN ivs : ivs[i][1] < ivs[i][2]
    /\ \A i \in 1..(Len(ivs) - 1) : ivs[i][2] = ivs[i + 1][1]

\* no stretch of MinLength bases of the window is covered minPoaCoverage times
NoIntervalMeetsThreshold(win) ==
    ~\E s \in win[2]..(win[3] - MinLength) :
        \A p \in s..(s + MinLength - 1) :
            CoverageAt(DOMAIN alnFile, p) >= arrowConfig.minPoaCoverage

\* C5: the intervals the loop iterates over are sorted, do not overlap and
\* make up exactly the window; one sub-consensus is appended per interval, in
\* that order; the joined sequence is as long as the sub-consensi together;
\* and with no interval meeting the threshold the list is the whole window.
C5_IntervalsTileWindow ==
    Partitioning =>
        /\ Tiles(allIntervals, eWindow)
        /\ (options.fancyChunking /\ NoIntervalMeetsThreshold(eWindow))
              => allIntervals = <<(<<eWindow[2], eWindow[3]>>)>>
        /\ Len(subConsensi) = idx - 1
        /\ \A i \in DOMAIN subConsensi :
              subConsensi[i].refWindow = <<eWindow[1], allIntervals[i][1], allIntervals[i][2]>>
        /\ pc \in {"Stitched", "Done"} =>
              /\ Len(subConsensi) = Len(allIntervals)
              /\ Len(css_.sequence) = SumLen([i \in DOMAIN subConsensi |-> subConsensi[i].sequence])

\* a gap, a covered interval and a gap were joined
C5_Witness ==
    /\ pc = "Stitched"
    /\ Len(allIntervals) = 3
    /\ ~log[1].real /\ log[2].real /\ ~log[3].real

\* the selected reads that pass the filters and span the interval
SpanningReads(alns, interval) ==
    {i \in alns : /\ alnFile[i].pass
                  /\ alnFile[i].tStart <= interval[1]
                  /\ alnFile[i].tEnd >= interval[2]}

\* C6: for every interval processed, the engine is invoked if and only if
\* at least minPoaCoverage of the clipped, filtered reads span the interval;
\* otherwise the sub-consensus is a no-call spanning the interval, the
\* variant caller is not invoked and the interval contributes no variants.
C6_EngineIffSpanned ==
    Partitioning =>
        /\ \A i \in DOMAIN log :
              /\ log[i].real <=> Cardinality(SpanningReads(log[i].alns, log[i].interval))
                                    >= arrowConfig.minPoaCoverage
              /\ ~log[i].real =>
                    /\ IsNoCall(subConsensi[i], <<eWindow[1], log[i].interval[1], log[i].interval[2]>>)
                    /\ log[i].nVariants = 0
              /\ log[i].real => \A j \in DOMAIN subConsensi[i].confidence :
                                    subConsensi[i].confidence[j] > 0
        /\ calls.consensusForAlignments = Cardinality({i \in DOMAIN log : log[i].real})
        /\ calls.variantsFromConsensus = Cardinality({i \in DOMAIN log : log[i].real})
        /\ calls.noCallConsensus = Cardinality({i \in DOMAIN log : ~log[i].real})
        /\ \A v \in Range(variants) :
              \E i \in DOMAIN log : /\ log[i].real
                                    /\ log[i].interval[1] <= v.refStart
                                    /\ v.refEnd <= log[i].interval[2]

\* an interval with a read that fails the filters got a no-call, and an
\* interval with enough spanning reads a real consensus
C6_Witness ==
    /\ pc = "Stitched"
    /\ \E i \in DOMAIN log : ~log[i].real /\ log[i].alns # {}
    /\ \E i \in DOMAIN log : log[i].real

\* every read that overlaps the enlarged window spans it and passes the
\* filters, and their number and the depth limit are at least minPoaCoverage
EnlargedWindowSpanned ==
    LET hits == ReadsInRange(eWindow)
    IN  /\ \A i \in hits : /\ alnFile[i].pass
                           /\ alnFile[i].tStart <= eWindow[2]
                           /\ alnFile[i].tEnd >= eWindow[3]
        /\ Cardinality(hits) >= arrowConfig.minPoaCoverage
        /\ options.coverage >= arrowConfig.minPoaCoverage

\* C8 as amended: for a chunk with coverage, when every read overlapping the
\* enlarged window spans it and passes the filters, and their number and the
\* depth limit are at least minPoaCoverage, the worker processes exactly one
\* interval with exactly one engine call and no no-call.
C8_SpannedWindowOneCall ==
    (pc \in {"Stitched", "Done"} /\ workChunk.hasCoverage /\ EnlargedWindowSpanned) =>
        /\ Len(allIntervals) = 1
        /\ calls.consensusForAlignments = 1
        /\ calls.noCallConsensus = 0

C8_Witness ==
    /\ Done
    /\ workChunk.hasCoverage
    /\ EnlargedWindowSpanned
    /\ options.fancyChunking
    /\ eWindow # workChunk.window
    /\ calls.consensusForAlignments = 1

\* C8 as stated: for a chunk with coverage whose requested window is covered
\* minPoaCoverage times everywhere, the worker processes one interval with
\* one engine call and no no-call.
C8_CoveredWindowOneCall ==
    (/\ Done
     /\ workChunk.hasCoverage
     /\ \A p \in refStart..(refEnd - 1) :
            CoverageAt(DOMAIN alnFile, p) >= arrowConfig.minPoaCoverage) =>
        /\ Len(allIntervals) = 1
        /\ calls.consensusForAlignments = 1
        /\ calls.noCallConsensus = 0

\* the steps onChunk may take from one position to the next
PathEdges ==
    {<<"Start", "Done">>, <<"Start", "HasCoverage">>, <<"HasCoverage", "Partitioned">>,
     <<"Partitioned", "Partitioned">>, <<"Partitioned", "Stitched">>, <<"Stitched", "Done">>}

\* onChunk is not stuck: the collaborator it is about to call has an answer
CanStep ==
    CASE pc = "Partitioned" /\ idx <= Len(allIntervals) ->
            readsInWindow(subWindow(eWindow, allIntervals[idx]), IntervalDepthLimit) # {}
      [] pc = "Stitched" ->
            Align(PySlice(refContig, eWindow[2], eWindow[3]), css_.sequence) # {}
      [] OTHER -> pc \in {"Start", "HasCoverage", "Partitioned"}

C9_Invariant ==
    /\ pc # "Aborted"
    /\ ~Done => CanStep
    /\ calls.returned = (IF Done THEN 1 ELSE 0)
    /\ ~Done => result = <<>>
    /\ Done =>
          /\ result[1] = workChunk.window
          /\ ResultConsensus.refWindow = workChunk.window
          /\ calls.Align = (IF workChunk.hasCoverage THEN 1 ELSE 0)
          /\ workChunk.hasCoverage => Len(log) = Len(allIntervals)

C9_Step ==
    /\ <<pc, pc'>> \in PathEdges
    /\ (pc' = pc) => (idx <= Len(allIntervals) /\ idx' = idx + 1)
    /\ (pc = "Start" /\ pc' = "Done") <=> (pc = "Start" /\ ~workChunk.hasCoverage)
    /\ (calls'.variantsFromConsensus # calls.variantsFromConsensus) => (pc = "Partitioned" /\ pc' = pc)

C10_ConfidenceLength ==
    /\ \A i \in DOMAIN subConsensi :
          Len(subConsensi[i].confidence) = Len(subConsensi[i].sequence)
    /\ (pc \in {"Stitched", "Done"} /\ workChunk.hasCoverage)
          => Len(css_.confidence) = Len(css_.sequence)
    /\ Done => Len(ResultConsensus.confidence) = Len(ResultConsensus.sequence)

\* a diploid consensus was cleaned, joined to no-calls and clipped by remap
C10_Witness ==
    /\ Done
    /\ arrowConfig.polishDiploid
    /\ Len(subConsensi) > 1
    /\ calls.consensusForAlignments = 1
    /\ Len(ResultConsensus.sequence) < Len(css_.sequence)
    /\ \E v \in Range(variants) : v.kind = "R"

\* the configuration errors
NonStandardReads == cfgAlnFile.readType # "standard"
UnloadableParameters == cfgOptions.parametersFile \notin {"", "good.json"}
RejectedOverride == cfgOptions.parametersSpec \notin {"auto", "S/P2-C2/5.0"}
UnsupportedChemistry ==
    \E i \in DOMAIN cfgAlnFile.readGroupTable :
        cfgAlnFile.readGroupTable[i].SequencingChemistry \notin supported
MissingBaseFeature ==
    \E i \in DOMAIN cfgAlnFile.readGroupTable :
        /\ cfgAlnFile.readGroupTable[i].SequencingChemistry \notin {"P6-C4", "S/P1-C1/beta"}
        /\ cfgAlnFile.readGroupTable[i].BaseFeatures # {"Ipd", "PulseWidth"}
ConfigureEnded == cfgPc \in {"Returned", "Raised", "Died"}

\* C7 as amended: configure returns an ArrowConfig exactly when the read type
\* is standard, the parameters file (if any) loads, the model override (if
\* any) is accepted, no read group of a chemistry other than P6-C4 and
\* S/P1-C1/beta lacks Ipd or PulseWidth and, when no override is given
\* (parametersSpec = "auto"), every chemistry of the file has a supported
\* model; otherwise it aborts and returns nothing. With an accepted override
\* an unsupported chemistry of the file does not abort configure.
C7_ConfigureFailsFast ==
    /\ ConfigureEnded =>
          ((cfgPc = "Returned") <=>
              ~(\/ NonStandardReads
                \/ UnloadableParameters
                \/ RejectedOverride
                \/ MissingBaseFeature
                \/ (cfgOptions.parametersSpec = "auto" /\ UnsupportedChemistry)))
    /\ (cfgPc # "Returned") => config = None
    /\ (cfgPc = "Raised") => NonStandardReads

\* configure returned under an override although the file has a chemistry
\* without a supported model
C7_Witness ==
    /\ cfgPc = "Returned"
    /\ cfgOptions.parametersSpec # "auto"
    /\ UnsupportedChemistry
    /\ config.polishDiploid = cfgOptions.diploid

\* C7 as stated: configure returns only when none of the errors is present,
\* an unsupported chemistry of the file among them, whatever the options.
C7_NoErrorWhenReturned ==
    (cfgPc = "Returned") =>
        ~(\/ NonStandardReads
          \/ UnloadableParameters
          \/ RejectedOverride
          \/ MissingBaseFeature
          \/ UnsupportedChemistry)
====
